---- MODULE Spec2Model ----
(***************************************************************************)
(* StableDiffusionImg2Img.generate_image                                   *)
(* (modules/image/text_to_image/stable_diffusion_img2img/module.py).       *)
(*                                                                         *)
(* One call of generate_image is modelled as a state machine: Setup is     *)
(* everything before the prompt loop (lines 140-226), then per prompt      *)
(* BeginPrompt (229-245), DenoiseStep (246-267), Checkpoint (268-287) and  *)
(* FinishPrompt (289-305).                                                 *)
(*                                                                         *)
(* Tensors are sequences over the batch axis of small integers (mod        *)
(* LatentMod).  The pretrained collaborators (vae, text encoder, unet,     *)
(* scheduler) are not part of module.py; they are fixed stand-in functions *)
(* that depend on all of their arguments.  strength is the rational        *)
(* strength / StrengthDen.                                                 *)
(***************************************************************************)
EXTENDS Integers, Sequences, FiniteSets, TLC

\* ---- bounds of the model ----
StrengthDen == 4
MaxSteps == 3
MaxBatch == 2
MaxGuidance == 2
MaxRate == 2
MaxPrompts == 2
MaxSeed == 1
LatentMod == 5
RngMod == 3
ImgH == 2
ImgW == 3

\* out_channels of the vae: the channel count of a decoded image
ImgC == 3

VARIABLES
    \* arguments of the call
    text_prompts, strength, batch_size, num_inference_steps, guidance_scale,
    seed, display_rate, init_image,
    \* the environment: the scheduler variant held by self.scheduler, the
    \* process-wide random state, the prompt (0 = none) whose embedding fails
    scheduler, rng, failAt,
    \* locals of generate_image (i = -1: the loop of the prompt has not
    \* taken an entry yet)
    pc, err, offset, timesteps, init_timestep, noise_timestep, init_latents,
    text_embeddings, latents, t_start, i, noise_pred, da_batches, promptIdx,
    \* observation of the run
    \* (noiseDraws: the number of paddle.randn calls made so far)
    calls, rngAtSample, consumed, duplicated, noiseDraws

args == <<text_prompts, strength, batch_size, num_inference_steps,
          guidance_scale, seed, display_rate, init_image, scheduler, failAt>>
locals == <<offset, timesteps, init_timestep, noise_timestep, init_latents,
            text_embeddings, latents, t_start, i, noise_pred, da_batches,
            promptIdx>>
vars == <<args, rng, pc, err, locals, calls, rngAtSample, consumed, duplicated,
          noiseDraws>>

\* ---- Python arithmetic ----

\* min(a, b)
Min(a, b) == IF a <= b THEN a ELSE b

\* max(a, b)
Max(a, b) == IF a >= b THEN a ELSE b

\* int(num / den): truncation toward zero (den > 0)
Trunc(num, den) == IF num >= 0 THEN num \div den ELSE -((-num) \div den)

\* 0-based position selected by seq[k] in Python for a sequence of length
\* len; -1 when the index is out of range (IndexError)
PyIndex(k, len) ==
    LET p == IF k < 0 THEN len + k ELSE k
    IN  IF p >= 0 /\ p < len THEN p ELSE -1

\* `if seed:`  -- None and 0 are both falsy
Truthy(s) == s.given /\ s.value # 0

\* ---- the random source ----

\* state of the random source after paddle.seed(value)
SeedState(value) == value % RngMod

\* state after one draw
RngNext(r) == (2 * r + 1) % RngMod

RECURSIVE RngAdvance(_, _)
\* state after n draws
RngAdvance(r, n) == IF n <= 0 THEN r ELSE RngAdvance(RngNext(r), n - 1)

\* paddle.randn(shape): one draw per batch element
Randn(r, n) == [j \in 1..n |-> RngAdvance(r, j - 1) % LatentMod]

\* ---- the schedule ----

\* scheduler.set_timesteps(num_inference_steps, offset): a strictly
\* decreasing sequence of timesteps, shifted by the offset
SetTimesteps(len, off) == [k \in 1..len |-> (len - k) + off]

\* int(num_inference_steps * strength) + offset, strength being the rational
\* s / StrengthDen and the product taken exactly (as the float product is
\* for a power-of-two denominator)
InitTimestepRaw(n, s, off) == Trunc(n * s, StrengthDen) + off

\* variant of InitTimestep without line 201
InitTimestepNoClamp(n, s, off) == InitTimestepRaw(n, s, off)

\* variant of InitTimestep without the offset of line 200
InitTimestepNoOffset(n, s, off) == Min(InitTimestepRaw(n, s, 0), n)

\* init_timestep after the clamp
InitTimestep(n, s, off) == Min(InitTimestepRaw(n, s, off), n)

\* variant of TStart without the offset
TStartNoOffset(n, k, off) == Max(n - k, 0)

\* t_start = max(num_inference_steps - init_timestep + offset, 0)
TStart(n, k, off) == Max(n - k + off, 0)

\* variant of TIndex that indexes the whole schedule
TIndexFromZero(ts, k) == k

\* t_index = t_start + i
TIndex(ts, k) == ts + k

\* the `timesteps` argument of add_noise (lines 202-206): the index
\* num_inference_steps - init_timestep for an LMSDiscreteScheduler, else the
\* schedule entry timesteps[-init_timestep] (-1: no such entry)
NoiseTimestep(n, s, sch) ==
    LET off == IF sch.accepts_offset THEN 1 ELSE 0
        len == Max(n, 0) + sch.extra
        k == InitTimestep(n, s, off)
        pos == PyIndex(-k, len)
    IN  IF sch.lms THEN n - k
        ELSE IF pos >= 0 THEN SetTimesteps(len, off)[pos + 1] ELSE -1

\* scheduler.sigmas of an LMSDiscreteScheduler: strictly decreasing in the
\* index, down to no noise at index n
Sigma(idx, n) == n - idx

\* the amount of noise add_noise injects for its `timesteps` argument: the
\* sigma at that index for an LMSDiscreteScheduler, else growing with the
\* timestep
NoiseLevel(sch, nt, n) == IF sch.lms THEN Sigma(nt, n) ELSE nt

\* variant of StartLatents that goes on from the latents of the prompt before
StartLatentsCarriedOver(init, prev) == IF prev = <<>> THEN init ELSE prev

\* latents = init_latents (line 243); prev is the value latents had before
StartLatents(init, prev) == init

\* ---- the collaborators ----

\* vae.encode(init_image).sample(), scaled
VaeEncodeSample(img, r) == (img + r) % LatentMod

\* scheduler.add_noise(latent, noise, timestep), per element
AddNoise(x, n, ts) == (x + n * (ts + 1)) % LatentMod

\* text_encoder(tokenize(prompt)); the empty prompt embeds to 0
TextEncoder(prompt) == prompt

\* unet(latent_model_input, t, encoder_hidden_states), per element
UnetPredict(x, t, emb) == (2 * x + t + emb) % LatentMod

\* latent_model_input / ((sigma**2 + 1)**0.5) with sigma = sigmas[t_index]
LmsScale(x, tIndex) == (x + tIndex + 1) % LatentMod

\* scheduler.step(noise_pred, t, latents)["prev_sample"], per element
SchedulerStep(np, t, x) == (x + np + t + 1) % LatentMod

\* ---- classifier-free guidance ----

\* variant of DoClassifierFreeGuidance with guidance_scale >= 1.0
DoGuidanceFromOne(g) == g >= 1

\* do_classifier_free_guidance = guidance_scale > 1.0
DoClassifierFreeGuidance(g) == g > 1

\* paddle.concat([a, b]) along the batch axis
Concat(a, b) == a \o b

\* tensor.chunk(2): the two halves along the batch axis
Chunk2(x) ==
    LET h == Len(x) \div 2
    IN  <<SubSeq(x, 1, h), SubSeq(x, h + 1, Len(x))>>

\* noise_pred_uncond + guidance_scale * (noise_pred_text - noise_pred_uncond)
Guide(uncond, text, g) == uncond + g * (text - uncond)

\* the embeddings handed to the unet for one prompt (lines 235-241)
TextEmbeddings(prompt, b, g) ==
    LET text == [j \in 1..b |-> TextEncoder(prompt)]
        uncond == [j \in 1..b |-> TextEncoder(0)]
    IN  IF DoClassifierFreeGuidance(g) THEN Concat(uncond, text) ELSE text

\* latent_model_input (lines 249-253)
LatentModelInput(x, g, lms, tIndex) ==
    LET inp == IF DoClassifierFreeGuidance(g) THEN Concat(x, x) ELSE x
    IN  IF lms THEN [j \in 1..Len(inp) |-> LmsScale(inp[j], tIndex)] ELSE inp

\* noise_pred after the guidance composition (lines 256-261)
NoisePred(x, t, emb, g, lms, tIndex) ==
    LET inp == LatentModelInput(x, g, lms, tIndex)
        raw == [j \in 1..Len(inp) |-> UnetPredict(inp[j], t, emb[j])]
    IN  IF DoClassifierFreeGuidance(g)
        THEN LET halves == Chunk2(raw)
             IN  [j \in 1..Len(x) |-> Guide(halves[1][j], halves[2][j], g)]
        ELSE raw

\* ---- decoded images and the result documents ----

\* 'image idx': 'merged'
MergedIdx == -1

NoImage == [shape |-> <<>>, src |-> <<>>]

\* tensor.transpose(perm) on a shape; perm is 0-based
Transpose(shape, perm) == [k \in 1..Len(perm) |-> shape[perm[k] + 1]]

\* tensor.flatten(1, 2) on a shape of rank 4
Flatten12(shape) == <<shape[1], shape[2] * shape[3], shape[4]>>

\* shape of vae.decode(...): batch, channels, height, width
DecodedShape(b) == <<b, ImgC, ImgH, ImgW>>

\* variant of MergePerm: the permutation of the per-element images
MergePermBatchMajor == <<0, 2, 3, 1>>

\* transpose([2, 0, 3, 1]) of the merged image
MergePerm == <<2, 0, 3, 1>>

\* merge_image: transpose([2, 0, 3, 1]).flatten(1, 2), then Image.fromarray
MergeImage(x) ==
    [shape |-> Flatten12(Transpose(DecodedShape(Len(x)), MergePerm)), src |-> x]

\* images[j] after transpose([0, 2, 3, 1]), then Image.fromarray; j is 0-based
ElemImage(x, j) ==
    [shape |-> Tail(Transpose(DecodedShape(Len(x)), <<0, 2, 3, 1>>)),
     src |-> <<x[j + 1]>>]

\* width of a PIL image made from an array of shape (height, width, channels)
Width(img) == img.shape[2]

\* the Document of one prompt as created by lines 229-233
NewDocument(prompt, b) ==
    [prompt |-> prompt, uri |-> NoImage,
     chunks |-> [k \in 1..(b + 1) |->
        [image_idx |-> IF k <= b THEN k - 1 ELSE MergedIdx,
         prompt |-> prompt, uri |-> NoImage, chunks |-> <<>>]]]

\* variant of IsCheckpoint that counts the steps from one
IsCheckpointCountingFromOne(step, rate) == (step + 1) % rate = 0

\* i % display_rate == 0
IsCheckpoint(step, rate) == step % rate = 0

\* lines 270-287: one tagged image appended to the merged chunk and to the
\* chunk of every decoded batch element
RecordCheckpoint(d, x, step) ==
    [d EXCEPT !.chunks = [k \in 1..Len(d.chunks) |->
        IF k = Len(d.chunks)
        THEN [d.chunks[k] EXCEPT !.chunks =
                Append(@, [step |-> step, prompt |-> d.prompt,
                           uri |-> MergeImage(x)])]
        ELSE [d.chunks[k] EXCEPT !.chunks =
                Append(@, [step |-> step, prompt |-> d.prompt,
                           uri |-> ElemImage(x, k - 1)])]]]

\* lines 290-305: the final images of the prompt
RecordFinal(d, x) ==
    [d EXCEPT !.uri = MergeImage(x),
              !.chunks = [k \in 1..Len(d.chunks) |->
        IF k = Len(d.chunks)
        THEN [d.chunks[k] EXCEPT !.uri = MergeImage(x)]
        ELSE [d.chunks[k] EXCEPT !.uri = ElemImage(x, k - 1)]]]

\* ---- the call ----

\* None, or an integer seed
Seeds == {[given |-> FALSE, value |-> 0]}
             \cup {[given |-> TRUE, value |-> v] : v \in 0..MaxSeed}

\* the variants self.scheduler can be: whether set_timesteps accepts `offset`
\* (line 183), whether it is an LMSDiscreteScheduler (line 202), and how many
\* entries beyond num_inference_steps its schedule has (one more at most,
\* and only for a variant with the unit offset)
Schedulers ==
    {[accepts_offset |-> a, lms |-> l, extra |-> e] :
        a \in BOOLEAN, l \in BOOLEAN, e \in 0..1} \ 
    {[accepts_offset |-> FALSE, lms |-> l, extra |-> 1] : l \in BOOLEAN}

\* text_prompts after lines 161-175: a list of one or more prompts
PromptLists ==
    UNION {[1..n -> 1..MaxPrompts] : n \in 1..MaxPrompts}

NoCalls == [encoder |-> 0, embedder |-> 0, uncond |-> 0, unet |-> 0, decoder |-> 0]

InitWith(P, S, B, N, G, Sd, D, Img, Sch, R) ==
    /\ text_prompts \in P
    /\ strength \in S
    /\ batch_size \in B
    /\ num_inference_steps \in N
    /\ guidance_scale \in G
    /\ seed \in Sd
    /\ display_rate \in D
    /\ init_image \in Img
    /\ scheduler \in Sch
    /\ rng \in R
    /\ failAt \in 0..Len(text_prompts)
    /\ pc = "start"
    /\ err = "none"
    /\ offset = 0
    /\ timesteps = <<>>
    /\ init_timestep = 0
    /\ noise_timestep = 0
    /\ init_latents = <<>>
    /\ text_embeddings = <<>>
    /\ latents = <<>>
    /\ t_start = 0
    /\ i = 0
    /\ noise_pred = <<>>
    /\ da_batches = <<>>
    /\ promptIdx = 1
    /\ calls = NoCalls
    /\ rngAtSample = -1
    /\ consumed = <<>>
    /\ duplicated = FALSE
    /\ noiseDraws = 0

\* lines 140-226: seeding, set_timesteps, encoding and noising the init image
Setup ==
    /\ pc = "start"
    /\ \E schedulerRaises \in
            (IF num_inference_steps < 1 THEN BOOLEAN ELSE {FALSE}) :
        LET rng1 == IF Truthy(seed) THEN SeedState(seed.value) ELSE rng
            off == IF scheduler.accepts_offset THEN 1 ELSE 0
            len == Max(num_inference_steps, 0) + scheduler.extra
            ts == SetTimesteps(len, off)
            sample == VaeEncodeSample(init_image, rng1)
            rng2 == RngNext(rng1)
            k == InitTimestep(num_inference_steps, strength, off)
            pos == PyIndex(-k, len)
            nt == NoiseTimestep(num_inference_steps, strength, scheduler)
            noise == Randn(rng2, batch_size)
            rng3 == RngAdvance(rng2, batch_size)
            encoded == [calls EXCEPT !.encoder = @ + 1]
        IN  IF schedulerRaises
            THEN \* set_timesteps rejects the step count (line 190)
                 /\ pc' = "raised"
                 /\ err' = "SchedulerError"
                 /\ rng' = rng1
                 /\ offset' = off
                 /\ UNCHANGED <<timesteps, init_timestep, noise_timestep,
                                init_latents, calls, rngAtSample, noiseDraws>>
            ELSE IF batch_size < 1
            THEN \* paddle.concat of an empty list (line 197)
                 /\ pc' = "raised"
                 /\ err' = "ConcatError"
                 /\ rng' = rng2
                 /\ offset' = off
                 /\ timesteps' = ts
                 /\ calls' = encoded
                 /\ rngAtSample' = rng1
                 /\ UNCHANGED <<init_timestep, noise_timestep, init_latents,
                                noiseDraws>>
            ELSE IF (~scheduler.lms /\ pos < 0)
                    \/ (scheduler.lms /\ nt \notin 0..num_inference_steps)
            THEN \* the schedule has no entry at the index (lines 205, 210)
                 /\ pc' = "raised"
                 /\ err' = "IndexError"
                 /\ rng' = IF scheduler.lms THEN rng3 ELSE rng2
                 /\ offset' = off
                 /\ timesteps' = ts
                 /\ init_timestep' = k
                 /\ calls' = encoded
                 /\ rngAtSample' = rng1
                 /\ noiseDraws' = noiseDraws + (IF scheduler.lms THEN 1 ELSE 0)
                 /\ UNCHANGED <<noise_timestep, init_latents>>
            ELSE /\ pc' = "prompt"
                 /\ err' = "none"
                 /\ rng' = rng3
                 /\ offset' = off
                 /\ timesteps' = ts
                 /\ init_timestep' = k
                 /\ noise_timestep' = nt
                 /\ init_latents' =
                        [j \in 1..batch_size |-> AddNoise(sample, noise[j], nt)]
                 /\ calls' = encoded
                 /\ rngAtSample' = rng1
                 /\ noiseDraws' = noiseDraws + 1
    /\ UNCHANGED <<args, text_embeddings, latents, t_start, i, noise_pred,
                   da_batches, promptIdx, consumed, duplicated>>

\* lines 228-245: the Document of the prompt, its embeddings, the start of
\* the denoise loop.  An exception of the text encoder leaves generate_image.
BeginPrompt ==
    /\ pc = "prompt"
    /\ LET prompt == text_prompts[promptIdx]
           cfg == DoClassifierFreeGuidance(guidance_scale)
       IN  /\ da_batches' = Append(da_batches, NewDocument(prompt, batch_size))
           /\ IF failAt = promptIdx
              THEN /\ pc' = "raised"
                   /\ err' = "ShapeMismatch"
                   /\ UNCHANGED <<text_embeddings, latents, t_start, i, calls,
                                  consumed>>
              ELSE /\ pc' = "loop"
                   /\ err' = "none"
                   /\ text_embeddings' =
                          TextEmbeddings(prompt, batch_size, guidance_scale)
                   /\ calls' = [calls EXCEPT
                          !.embedder = @ + (IF cfg THEN 2 ELSE 1),
                          !.uncond = @ + (IF cfg THEN 1 ELSE 0)]
                   /\ latents' = StartLatents(init_latents, latents)
                   /\ t_start' = TStart(num_inference_steps, init_timestep, offset)
                   /\ i' = -1
                   /\ consumed' = <<>>
    /\ UNCHANGED <<args, rng, offset, timesteps, init_timestep, noise_timestep,
                   init_latents, noise_pred, promptIdx, rngAtSample, duplicated,
                   noiseDraws>>

\* lines 246-267: the loop takes the next schedule entry (i becomes its
\* position in timesteps[t_start:]) and runs the iteration up to
\* scheduler.step
DenoiseStep ==
    /\ pc = "loop"
    /\ TIndex(t_start, i + 1) < Len(timesteps)
    /\ LET t_index == TIndex(t_start, i + 1)
           t == timesteps[t_index + 1]
           inp == LatentModelInput(latents, guidance_scale, scheduler.lms, t_index)
           np == NoisePred(latents, t, text_embeddings, guidance_scale,
                           scheduler.lms, t_index)
       IN  /\ noise_pred' = np
           /\ duplicated' = (Len(inp) = 2 * Len(latents))
           /\ latents' = [j \in 1..Len(latents) |->
                 SchedulerStep(np[j], IF scheduler.lms THEN t_index ELSE t,
                               latents[j])]
           /\ consumed' = Append(consumed, t_index)
           /\ calls' = [calls EXCEPT !.unet = @ + 1]
           /\ pc' = IF IsCheckpoint(i + 1, display_rate)
                    THEN "checkpoint" ELSE "loop"
           /\ i' = i + 1
    /\ UNCHANGED <<args, rng, err, offset, timesteps, init_timestep,
                   noise_timestep, init_latents, text_embeddings, t_start,
                   da_batches, promptIdx, rngAtSample, noiseDraws>>

\* lines 268-287: decode the current latents and record the progress images
Checkpoint ==
    /\ pc = "checkpoint"
    /\ da_batches' = [da_batches EXCEPT
          ![Len(da_batches)] = RecordCheckpoint(@, latents, i)]
    /\ calls' = [calls EXCEPT !.decoder = @ + 1]
    /\ pc' = "loop"
    /\ UNCHANGED <<args, rng, err, offset, timesteps, init_timestep,
                   noise_timestep, init_latents, text_embeddings, latents,
                   t_start, i, noise_pred, promptIdx, rngAtSample, consumed,
                   duplicated, noiseDraws>>

\* lines 289-306: the schedule is exhausted; decode and record the final
\* images, go on to the next prompt or return da_batches
FinishPrompt ==
    /\ pc = "loop"
    /\ TIndex(t_start, i + 1) >= Len(timesteps)
    /\ da_batches' = [da_batches EXCEPT
          ![Len(da_batches)] = RecordFinal(@, latents)]
    /\ calls' = [calls EXCEPT !.decoder = @ + 1]
    /\ promptIdx' = promptIdx + 1
    /\ pc' = IF promptIdx < Len(text_prompts) THEN "prompt" ELSE "done"
    /\ UNCHANGED <<args, rng, err, offset, timesteps, init_timestep,
                   noise_timestep, init_latents, text_embeddings, latents,
                   t_start, i, noise_pred, rngAtSample, consumed, duplicated,
                   noiseDraws>>

Next == Setup \/ BeginPrompt \/ DenoiseStep \/ Checkpoint \/ FinishPrompt

ValidStrengths == 0..StrengthDen

AllStrengths == (-StrengthDen)..(2 * StrengthDen)

Init ==
    InitWith({<<1>>}, ValidStrengths, {1}, 1..MaxSteps, {0, MaxGuidance},
             {[given |-> FALSE, value |-> 0]}, 1..MaxRate, {1}, Schedulers, {0})

Spec == Init /\ [][Next]_vars

NoSeed == [given |-> FALSE, value |-> 0]

\* calls with arguments inside and outside the documented ranges
InitInvalid ==
    InitWith({<<1>>}, AllStrengths, 0..MaxBatch, 0..MaxSteps, {MaxGuidance},
             {NoSeed}, {1}, {1}, Schedulers, {0})

SpecInvalid == InitInvalid /\ [][Next]_vars

\* calls with one or several prompts, one of which may fail
InitPrompts ==
    InitWith(PromptLists, {0, StrengthDen \div 2, StrengthDen}, 1..MaxBatch,
             {MaxSteps}, {MaxGuidance}, {NoSeed}, {MaxRate}, {1},
             {sch \in Schedulers : ~sch.lms}, {0})

SpecPrompts == InitPrompts /\ [][Next]_vars

\* calls over the guidance scales, display rates and batch sizes
InitGuidance ==
    InitWith({<<1>>, <<2>>}, {StrengthDen \div 2, StrengthDen}, 1..MaxBatch,
             {1, MaxSteps}, 0..MaxGuidance, {NoSeed}, 1..MaxRate, 0..1,
             Schedulers, {0, 1})

SpecGuidance == InitGuidance /\ [][Next]_vars

\* calls over the seeds and the states the random source was left in
InitSeed ==
    InitWith({<<1>>}, {StrengthDen \div 2, StrengthDen}, 1..MaxBatch,
             {MaxSteps}, {MaxGuidance}, Seeds, {1}, {1},
             {sch \in Schedulers : ~sch.lms}, 0..(RngMod - 1))

SpecSeed == InitSeed /\ [][Next]_vars

\* ---- properties ----

\* the arguments are in the documented ranges
ValidParams ==
    /\ strength \in ValidStrengths
    /\ batch_size >= 1
    /\ num_inference_steps >= 1

\* lines 140-226 have run to their end
SetupDone == pc \in {"prompt", "loop", "checkpoint", "done"} \/ err = "ShapeMismatch"

\* the denoise loop of the current prompt has been entered
InLoop == pc \in {"loop", "checkpoint"}

\* the denoise loop of the last prompt begun has run to its end
LoopDone == pc \in {"prompt", "done"} /\ promptIdx > 1

\* int(num_inference_steps * strength) + offset, from the arguments
RawStepOffset == Trunc(num_inference_steps * strength, StrengthDen) + offset

\* C1 as stated: for every strength in [0,1], every numInferenceSteps >= 1
\* and both offsets, init_timestep equals int(numInferenceSteps * strength)
\* + offset and is at most numInferenceSteps.
C1_StepOffsetUnclamped ==
    (ValidParams /\ SetupDone) =>
        /\ init_timestep = RawStepOffset
        /\ init_timestep <= num_inference_steps

\* C1 amended: init_timestep is the smaller of int(numInferenceSteps *
\* strength) + offset and numInferenceSteps; it equals the former exactly
\* when the former does not exceed numInferenceSteps.
C1_StepOffsetClamped ==
    (ValidParams /\ SetupDone) =>
        /\ init_timestep <= num_inference_steps
        /\ init_timestep <= RawStepOffset
        /\ init_timestep \in {RawStepOffset, num_inference_steps}
        /\ (RawStepOffset <= num_inference_steps => init_timestep = RawStepOffset)

\* C1 witness: the clamp has acted (strength 1 with the unit offset)
C1_Witness ==
    /\ ValidParams /\ SetupDone
    /\ RawStepOffset > num_inference_steps
    /\ init_timestep = num_inference_steps

\* the start index of the loop, from the arguments and init_timestep
ExpectedStart == Max(num_inference_steps - init_timestep + offset, 0)

\* C4: the denoise loop of a prompt consumes the schedule indices t_start,
\* t_start + 1, ... in that order, each once, with t_start =
\* max(numInferenceSteps - stepOffset + offset, 0); the timesteps consumed are
\* strictly decreasing; when the loop has ended every entry from t_start to
\* the end of the schedule has been consumed, and once the last entry is
\* consumed no further step is taken.
C4_ScheduleConsumedInOrder ==
    (ValidParams /\ (InLoop \/ LoopDone)) =>
        /\ t_start = ExpectedStart
        /\ \A k \in 1..Len(consumed) :
              /\ consumed[k] = ExpectedStart + k - 1
              /\ consumed[k] < Len(timesteps)
        /\ \A k \in 1..(Len(consumed) - 1) :
              timesteps[consumed[k] + 1] > timesteps[consumed[k + 1] + 1]
        /\ LoopDone => Len(consumed) = Max(Len(timesteps) - ExpectedStart, 0)
        /\ (pc = "loop" /\ Len(consumed) >= Len(timesteps) - ExpectedStart)
              => (~ENABLED DenoiseStep /\ ENABLED FinishPrompt)

\* C4 witness: a loop that started inside the schedule and consumed several
\* entries up to the last one
C4_Witness ==
    /\ ValidParams /\ LoopDone
    /\ t_start > 0
    /\ Len(consumed) >= 2
    /\ consumed[Len(consumed)] = Len(timesteps) - 1

\* C5 as stated: with strength = 1 the loop starts at schedule index 0 and
\* executes one step for every schedule entry, with and without the offset.
C5_FullScheduleTraversed ==
    (ValidParams /\ strength = StrengthDen) =>
        /\ (InLoop \/ LoopDone) => t_start = 0
        /\ LoopDone => consumed = [k \in 1..Len(timesteps) |-> k - 1]

\* C5 amended: with strength = 1 the loop starts at schedule index t_start =
\* offset and executes one step for every schedule entry from that index on;
\* the whole schedule is traversed for a variant without the unit offset, and
\* the first entry is skipped for a variant with it.
C5_TraversedFromOffset ==
    (ValidParams /\ strength = StrengthDen) =>
        /\ (InLoop \/ LoopDone) => t_start = offset
        /\ LoopDone => consumed = [k \in 1..(Len(timesteps) - offset) |->
                                      offset + k - 1]

\* C5 witness: strength 1 with the unit offset, loop ended
C5_Witness ==
    /\ ValidParams /\ strength = StrengthDen /\ LoopDone
    /\ offset = 1
    /\ Len(consumed) = Len(timesteps) - 1
    /\ Len(consumed) >= 2

\* C6: with strength = 0, init_timestep equals offset, t_start is the end of
\* the schedule or the entry before it, and at most one denoise step is
\* executed, for every numInferenceSteps >= 1 and both offsets.
C6_ZeroStrength ==
    (ValidParams /\ strength = 0) =>
        /\ SetupDone => init_timestep = offset
        /\ (InLoop \/ LoopDone) =>
              /\ t_start >= Len(timesteps) - 1
              /\ t_start <= Len(timesteps)
              /\ Len(consumed) <= 1
        /\ pc = "loop" /\ Len(consumed) = 1 => ~ENABLED DenoiseStep

\* C6 witness: strength 0 with the unit offset, loop ended after one step
C6_Witness ==
    /\ ValidParams /\ strength = 0 /\ LoopDone
    /\ offset = 1
    /\ num_inference_steps > 1
    /\ Len(consumed) = 1

\* generate_image has returned or raised
CallEnded == pc \in {"done", "raised"}

\* the Document of a prompt holds its final images
Complete(d) ==
    /\ d.uri # NoImage
    /\ \A k \in 1..Len(d.chunks) : d.chunks[k].uri # NoImage

\* C2: a call with strength outside [0,1], batchSize < 1 or numInferenceSteps
\* < 1 ends in an InvalidParameter error, raised before any invocation of
\* the encoder, the text embedder, the noise predictor or the decoder.
C2_InvalidParameterFailFast ==
    (~ValidParams /\ pc # "start") =>
        /\ pc = "raised"
        /\ err = "InvalidParameter"
        /\ calls = NoCalls

\* C3: in a multi-prompt call a failure raised while processing one prompt
\* does not prevent the processing of the later prompts: when the call has
\* ended every prompt has an entry, and the entry of every prompt but the
\* failing one is complete.
C3_PromptFailureIsolated ==
    (ValidParams /\ CallEnded /\ failAt # 0) =>
        /\ Len(da_batches) = Len(text_prompts)
        /\ \A q \in 1..Len(text_prompts) :
              q # failAt => Complete(da_batches[q])

\* C10: with an explicit integer seed (0 included) the random source is
\* seeded from the seed before the encoder sample and the noise are drawn,
\* so that the draws, and the noised latents the trajectory starts from, are
\* a function of the seed and the other arguments alone.
C10_SeedDeterminism ==
    (ValidParams /\ seed.given /\ SetupDone) =>
        /\ rngAtSample = SeedState(seed.value)
        /\ init_latents =
              [j \in 1..batch_size |->
                  AddNoise(VaeEncodeSample(init_image, SeedState(seed.value)),
                           Randn(RngNext(SeedState(seed.value)), batch_size)[j],
                           noise_timestep)]

\* the Document of the prompt being processed, or processed last
CurrentDoc == da_batches[Len(da_batches)]

\* C7: when guidanceScale <= 1.0 classifier-free guidance is disabled: no
\* unconditional embedding is produced, the latent is not duplicated, the
\* noise prediction is the conditional prediction unchanged and the step
\* output is the one computed from it (so the output for guidanceScale = 1.0
\* is the output with guidance disabled); for guidanceScale > 1.0 the latent
\* is duplicated and the prediction is uncond + guidanceScale * (cond -
\* uncond).
C7_GuidanceComposition ==
    [][(pc = "loop" /\ Len(consumed') = Len(consumed) + 1) =>
        LET tix == t_start + i + 1
            t == timesteps[tix + 1]
            B == batch_size
            inp == [j \in 1..B |->
                      IF scheduler.lms THEN LmsScale(latents[j], tix)
                      ELSE latents[j]]
            embCond == TextEncoder(text_prompts[promptIdx])
            cond == [j \in 1..B |-> UnetPredict(inp[j], t, embCond)]
            uncond == [j \in 1..B |-> UnetPredict(inp[j], t, TextEncoder(0))]
        IN  IF guidance_scale <= 1
            THEN /\ calls'.uncond = 0
                 /\ calls'.embedder = promptIdx
                 /\ text_embeddings = [j \in 1..B |-> embCond]
                 /\ ~duplicated'
                 /\ noise_pred' = cond
                 /\ latents' = [j \in 1..B |->
                       SchedulerStep(cond[j],
                                     IF scheduler.lms THEN tix ELSE t,
                                     latents[j])]
            ELSE /\ calls'.uncond = promptIdx
                 /\ Len(text_embeddings) = 2 * B
                 /\ duplicated'
                 /\ noise_pred' = [j \in 1..B |->
                       uncond[j] + guidance_scale * (cond[j] - uncond[j])]
      ]_vars

\* C7 witness: a denoise step has run with guidanceScale = 1.0 on a batch
\* of two, guidance disabled
C7_Witness ==
    /\ ValidParams /\ InLoop
    /\ guidance_scale = 1
    /\ batch_size = 2
    /\ Len(consumed) >= 1
    /\ ~duplicated
    /\ calls.uncond = 0
    /\ Len(noise_pred) = 2

\* the loop positions 0, rate, 2 * rate, ... up to upTo
MultiplesUpTo(upTo, rate) == [n \in 1..((upTo \div rate) + 1) |-> (n - 1) * rate]

\* C8: every displayRate-th step of the denoise loop records a checkpoint,
\* and the step that ends the loop is followed by the decode-and-record of
\* the final latents; each of these records exactly batchSize per-element
\* images plus one merged image, decoded from the carried latents, and
\* leaves the carried latents and the step index unchanged.
C8_Checkpoints ==
    [][((ValidParams /\ (InLoop \/ LoopDone)) =>
          LET d == CurrentDoc
              upTo == IF pc = "checkpoint" THEN i - 1 ELSE i
          IN  /\ Len(d.chunks) = batch_size + 1
              /\ \A k \in 1..Len(d.chunks) :
                    /\ [n \in 1..Len(d.chunks[k].chunks) |->
                           d.chunks[k].chunks[n].step]
                          = MultiplesUpTo(upTo, display_rate)
                    /\ \A n \in 1..Len(d.chunks[k].chunks) :
                          Len(d.chunks[k].chunks[n].uri.src)
                             = IF k <= batch_size THEN 1 ELSE batch_size
              /\ LoopDone =>
                    /\ d.uri.src = latents
                    /\ d.chunks[batch_size + 1].uri.src = latents
                    /\ \A k \in 1..batch_size :
                          d.chunks[k].uri.src = <<latents[k]>>)'
       /\ (pc = "checkpoint" =>
              /\ latents' = latents
              /\ i' = i
              /\ LET c == CurrentDoc'.chunks
                 IN  /\ c[batch_size + 1].chunks[Len(c[batch_size + 1].chunks)]
                          = [step |-> i, prompt |-> text_prompts[promptIdx],
                             uri |-> [shape |-> <<ImgH, batch_size * ImgW, ImgC>>,
                                      src |-> latents]]
                     /\ \A k \in 1..batch_size :
                          c[k].chunks[Len(c[k].chunks)].uri.src = <<latents[k]>>)
       /\ ((pc = "loop" /\ pc' \in {"prompt", "done"}) => latents' = latents)
      ]_vars

\* C8 witness: a loop of several steps has ended on a step that is not a
\* displayRate-th one, after recording a checkpoint, on a batch of two
C8_Witness ==
    /\ ValidParams /\ LoopDone
    /\ batch_size = 2
    /\ display_rate = 2
    /\ i = 1
    /\ Len(CurrentDoc.chunks[1].chunks) = 1
    /\ CurrentDoc.chunks[3].uri.src = latents

\* C9: on successful completion generate_image returns one entry per
\* prompt, in the input order of the prompts; each entry holds batchSize
\* final per-element images, tagged 0..batchSize-1, followed by one merged
\* composite whose width is batchSize times the width of a single image.
C9_ResultShape ==
    (ValidParams /\ pc = "done") =>
        /\ Len(da_batches) = Len(text_prompts)
        /\ \A p \in 1..Len(text_prompts) :
              LET d == da_batches[p]
              IN  /\ d.prompt = text_prompts[p]
                  /\ Len(d.chunks) = batch_size + 1
                  /\ \A k \in 1..batch_size :
                        /\ d.chunks[k].image_idx = k - 1
                        /\ d.chunks[k].prompt = text_prompts[p]
                        /\ d.chunks[k].uri # NoImage
                        /\ Len(d.chunks[k].uri.src) = 1
                        /\ d.chunks[batch_size + 1].uri.shape[2]
                              = batch_size * d.chunks[k].uri.shape[2]
                        /\ d.chunks[batch_size + 1].uri.shape[1]
                              = d.chunks[k].uri.shape[1]
                  /\ d.chunks[batch_size + 1].image_idx = MergedIdx
                  /\ d.chunks[batch_size + 1].uri # NoImage
                  /\ d.chunks[batch_size + 1].uri.shape[2] = batch_size * ImgW
                  /\ d.uri = d.chunks[batch_size + 1].uri

\* C9 witness: a call with several different prompts, not in sorted order,
\* and a batch of two has returned
C9_Witness ==
    /\ ValidParams /\ pc = "done"
    /\ Len(text_prompts) >= 2
    /\ text_prompts[1] > text_prompts[2]
    /\ batch_size = 2
    /\ Len(da_batches) = Len(text_prompts)

\* C11 as stated: for every prompt of a multi-prompt call a noise tensor is
\* sampled and injected as part of that prompt's processing, so that when the
\* loop of the p-th prompt runs p noise tensors have been sampled.
C11_NoiseSampledPerPrompt ==
    (ValidParams /\ InLoop) => noiseDraws = promptIdx

\* C11 amended: the noise tensor is sampled and injected once per call,
\* before the prompt loop; each prompt's sample state is created once for
\* that prompt as that one noised init latent (every prompt starts from the
\* same latent), no noise is sampled while a prompt is processed, and the
\* starting latent is not affected by any prompt's iteration.
C11_SharedNoisedStart ==
    [][/\ (pc = "start" /\ pc' = "prompt") =>
             /\ noiseDraws' = 1
             /\ init_latents' =
                   [j \in 1..batch_size |->
                       AddNoise(VaeEncodeSample(init_image, rngAtSample'),
                                Randn(RngNext(rngAtSample'), batch_size)[j],
                                noise_timestep')]
       /\ (pc = "prompt" /\ pc' = "loop") =>
             /\ latents' = init_latents
             /\ consumed' = <<>>
             /\ i' = -1
       /\ pc # "start" =>
             /\ init_latents' = init_latents
             /\ noiseDraws' = noiseDraws
             /\ rng' = rng
      ]_vars

\* C11 witness: the second prompt of a call starts from the noised init
\* latent after the loop of the first prompt has moved its own latents away
\* from it, one noise tensor having been sampled
C11_Witness ==
    /\ ValidParams /\ pc = "loop"
    /\ promptIdx = 2
    /\ i = -1
    /\ latents = init_latents
    /\ noiseDraws = 1
    /\ da_batches[1].uri.src # init_latents

\* C12: for a strictly decreasing schedule and a fixed numInferenceSteps the
\* noise level selected for the noise injection is monotone non-decreasing
\* in strength over [0,1]: no smaller strength selects a noisier entry than
\* the strength of the call does, on the non-LMS path (offset 0 and offset
\* 1) and on the LMS path.
C12_NoiseMonotoneInStrength ==
    (ValidParams /\ SetupDone) =>
        \A s2 \in ValidStrengths :
            s2 <= strength =>
                NoiseLevel(scheduler,
                           NoiseTimestep(num_inference_steps, s2, scheduler),
                           num_inference_steps)
                    <= NoiseLevel(scheduler, noise_timestep, num_inference_steps)

====
